---- MODULE Spec2Model ----
(***************************************************************************)
(* Model of add_advanced_tags.py: the TagDB store (one table keyed by      *)
(* url), the bookmark tree walkers collect_bookmarks and process_phase2,    *)
(* the Phase 1 loop process_phase1 and the driver main.                     *)
(*                                                                         *)
(* Spec is one run of main; SpecStore is the store used on its own;         *)
(* SpecRerun is a run followed by a non-refresh run on what it left;        *)
(* SpecPair is a refresh run followed by a refresh run on the same input,   *)
(* the same answers of the collaborators and another store.                 *)
(*                                                                         *)
(* Text that the program splits, strips or joins (tag fields, generator    *)
(* responses, uris) is a sequence of one-character strings; titles and      *)
(* page snippets, of which the program only tests emptiness, are strings.   *)
(***************************************************************************)
EXTENDS Integers, Sequences, FiniteSets, TLC

VARIABLES
    pc,                 \* position of main: "start", "phase1", "write", "done", "exit",
                        \* "crashed"; "store" when the store is used on its own
    file_exists,        \* os.path.exists(input_path)
    api_key,            \* GEMINI_API_KEY is set
    init_mode,          \* args.init
    file,               \* content of the input file: a bookmark tree
    temp,               \* the working copy input_path + ".temp" exists
    data,               \* the tree loaded by json.load, mutated in place
    all_bookmarks_list, \* the bucket filled by collect_bookmarks (node references)
    i,                  \* 1-based index of the Phase 1 loop
    api_quota_reached,  \* the run-scoped flag of process_phase1
    db,                 \* rows of table page_tags
    clock,              \* datetime.datetime.now(), as a logical time
    log,                \* history: the calls made so far, in order
    db_before,          \* history: the rows of page_tags when the (first) run started
    file_before         \* history: the input file when the (first) run started

\* what a run never changes
env == <<file_exists, api_key, init_mode, db_before, file_before>>

vars == <<pc, env, file, temp, data, all_bookmarks_list, i, api_quota_reached,
          db, clock, log>>

----------------------------------------------------------------------------
(* Bounds *)

\* number of nodes of the bookmark tree (the root folder included)
MaxNodes == 3

\* number of store operations in a behaviour of SpecStore
MaxOps == 4

----------------------------------------------------------------------------
(* Text *)

Comma == ","
Space == " "

\* the value Python's None stands for in a result that is otherwise text
None == <<"None">>

\* str.startswith
StartsWith(s, prefix) ==
    /\ Len(s) >= Len(prefix)
    /\ SubSeq(s, 1, Len(prefix)) = prefix

\* str.split(',')
RECURSIVE Split(_)
Split(s) ==
    IF s = <<>> THEN << <<>> >>
    ELSE LET rest == Split(Tail(s))
         IN  IF Head(s) = Comma
             THEN << <<>> >> \o rest
             ELSE << <<Head(s)>> \o Head(rest) >> \o Tail(rest)

RECURSIVE LStrip(_)
LStrip(s) == IF s # <<>> /\ Head(s) = Space THEN LStrip(Tail(s)) ELSE s

RECURSIVE RStrip(_)
RStrip(s) ==
    IF s # <<>> /\ s[Len(s)] = Space THEN RStrip(SubSeq(s, 1, Len(s) - 1)) ELSE s

\* str.strip
Strip(s) == RStrip(LStrip(s))

\* [t.strip() for t in parts if t.strip()]
RECURSIVE StripNonEmpty(_)
StripNonEmpty(parts) ==
    IF parts = <<>> THEN <<>>
    ELSE LET t == Strip(Head(parts))
         IN  (IF t # <<>> THEN <<t>> ELSE <<>>) \o StripNonEmpty(Tail(parts))

\* the tag-list of a comma-separated text
ParseTags(s) == StripNonEmpty(Split(s))

\* ",".join(tags_list)
RECURSIVE Join(_)
Join(tags_list) ==
    IF tags_list = <<>> THEN <<>>
    ELSE IF Len(tags_list) = 1 THEN Head(tags_list)
    ELSE Head(tags_list) \o <<Comma>> \o Join(Tail(tags_list))

----------------------------------------------------------------------------
(* TagDB *)

\* a row of page_tags
Row(url, title, tags, updated_at) ==
    [url |-> url, title |-> title, tags |-> tags, updated_at |-> updated_at]

RowsOf(rows, url) == {r \in rows : r.url = url}

\* TagDB.get_tags: SELECT tags ... fetchone(); row[0] if row else None
get_tags(rows, url) ==
    IF RowsOf(rows, url) = {} THEN None
    ELSE (CHOOSE r \in RowsOf(rows, url) : TRUE).tags

\* TagDB.upsert_tags keeping the tags of a row that exists
upsert_tags_keep_old(rows, url, title, tags_list, now) ==
    IF RowsOf(rows, url) = {}
    THEN rows \cup {Row(url, title, Join(tags_list), now)}
    ELSE rows

\* TagDB.upsert_tags adding the new tags to those of a row that exists
upsert_tags_merge(rows, url, title, tags_list, now) ==
    IF RowsOf(rows, url) = {}
    THEN rows \cup {Row(url, title, Join(tags_list), now)}
    ELSE {IF r.url = url
          THEN [r EXCEPT !.tags = Join(<<r.tags>> \o tags_list), !.updated_at = now]
          ELSE r : r \in rows}

\* TagDB.upsert_tags: INSERT ... ON CONFLICT(url) DO UPDATE SET tags, updated_at
upsert_tags(rows, url, title, tags_list, now) ==
    IF RowsOf(rows, url) = {}
    THEN rows \cup {Row(url, title, Join(tags_list), now)}
    ELSE {IF r.url = url
          THEN [r EXCEPT !.tags = Join(tags_list), !.updated_at = now]
          ELSE r : r \in rows}

----------------------------------------------------------------------------
(* Bookmark tree *)

PlaceType == "text/x-moz-place"
ContainerType == "text/x-moz-place-container"

Http == <<"h", "t", "t", "p">>
UrlA == Http \o <<":", "a">>
UrlB == Http \o <<":", "b">>
NonHttpUri == <<"f", "t", "p">>
\* node.get('uri', '') of a node without uri
NoUri == <<>>

Urls == {UrlA, UrlB}

Node(type, uri, title, tags) ==
    [type |-> type, uri |-> uri, title |-> title, tags |-> tags, children |-> <<>>]

\* the root of an export: a folder
RootNode == Node(ContainerType, NoUri, "", <<>>)

\* the nodes a tree is built from
NodeProfiles ==
    { Node(ContainerType, UrlA, "F", <<"k">>),
      Node(PlaceType, NonHttpUri, "T", <<"m">>),
      Node(PlaceType, UrlA, "", <<>>),
      Node(PlaceType, UrlA, "T", <<"m">>),
      Node(PlaceType, UrlA, "", <<Space, "m", Comma, "n">>),
      Node(PlaceType, UrlB, "", <<Comma>>) }

\* the ids k..n whose parent is p, in ascending order
RECURSIVE ChildrenOf(_, _, _, _)
ChildrenOf(parent, p, k, n) ==
    IF k > n THEN <<>>
    ELSE (IF parent[k] = p THEN <<k>> ELSE <<>>) \o ChildrenOf(parent, p, k + 1, n)

\* the trees of n nodes: node 1 is the root and node k > 1 hangs under a node
\* of smaller id
Trees(n) ==
    { [k \in 1..n |->
          [(IF k = 1 THEN RootNode ELSE prof[k])
              EXCEPT !.children = ChildrenOf(parent, k, k + 1, n)]] :
        prof \in [2..n -> NodeProfiles],
        parent \in {f \in [2..n -> 1..n] : \A k \in 2..n : f[k] < k} }

NoTree == <<>>

\* the node is a bookmark with an http uri
IsTaggable(node) == node.type = PlaceType /\ StartsWith(node.uri, Http)

\* collect_bookmarks(node, bucket), returning the bucket
RECURSIVE collect_bookmarks(_, _, _)
RECURSIVE collect_children(_, _, _)
\* collect_bookmarks appending a node after its children were visited
collect_bookmarks_postorder(tree, n, bucket) ==
    LET below == collect_children(tree, tree[n].children, bucket)
    IN  IF tree[n].type = PlaceType THEN Append(below, n) ELSE below

collect_bookmarks(tree, n, bucket) ==
    collect_children(tree, tree[n].children,
        IF tree[n].type = PlaceType THEN Append(bucket, n) ELSE bucket)
collect_children(tree, kids, bucket) ==
    IF kids = <<>> THEN bucket
    ELSE collect_children(tree, Tail(kids), collect_bookmarks(tree, Head(kids), bucket))


\* a lookup result that Python's `if value:` accepts
Truthy(value) == value # None /\ value # <<>>

\* the test of process_phase2 as `is not None`
NotNone(value) == value # None

\* if cached_tags_val: (process_phase2)
ShouldWriteBack(cached_tags_val) == Truthy(cached_tags_val)

\* process_phase2 descending only below nodes that are not bookmarks
RECURSIVE process_phase2_no_descend(_, _, _)
RECURSIVE phase2_children_no_descend(_, _, _)
process_phase2_no_descend(tree, n, rows) ==
    LET node == tree[n]
        cached_tags_val == get_tags(rows, node.uri)
    IN  IF node.type = PlaceType
        THEN (IF StartsWith(node.uri, Http) /\ ShouldWriteBack(cached_tags_val)
              THEN [tree EXCEPT ![n].tags = cached_tags_val]
              ELSE tree)
        ELSE phase2_children_no_descend(tree, node.children, rows)
phase2_children_no_descend(tree, kids, rows) ==
    IF kids = <<>> THEN tree
    ELSE phase2_children_no_descend(
             process_phase2_no_descend(tree, Head(kids), rows), Tail(kids), rows)

\* process_phase2(node, db), returning the tree. The tree the visit starts
\* from is bound to t as a value, so that it is computed once.
RECURSIVE process_phase2(_, _, _)
RECURSIVE phase2_children(_, _, _)
process_phase2(tree, n, rows) ==
    LET visit(t) ==
            LET node == t[n]
                cached_tags_val == get_tags(rows, node.uri)
                updated ==
                    IF /\ node.type = PlaceType
                       /\ StartsWith(node.uri, Http)
                       /\ ShouldWriteBack(cached_tags_val)
                    THEN [t EXCEPT ![n].tags = cached_tags_val]
                    ELSE t
            IN  phase2_children(updated, node.children, rows)
    IN  CHOOSE out \in {visit(t) : t \in {tree}} : TRUE
phase2_children(tree, kids, rows) ==
    IF kids = <<>> THEN tree
    ELSE phase2_children(process_phase2(tree, Head(kids), rows), Tail(kids), rows)

----------------------------------------------------------------------------
(* Collaborators *)

\* what get_page_content can return: (title, text)
FetchResults ==
    { [title |-> "", content |-> ""],
      [title |-> "P", content |-> ""],
      [title |-> "", content |-> "c"] }

\* the patterns generate_tags looks for in str(e).lower()
QuotaPatterns == {"429", "quota", "resource_exhausted"}

\* what client.models.generate_content can do: return a text, or raise an
\* exception whose lowered message holds the given patterns
ApiResponses ==
    { [kind |-> "text", text |-> <<"f", Comma, Space, "b">>, patterns |-> {}],
      [kind |-> "text", text |-> <<Space, Comma>>, patterns |-> {}],
      [kind |-> "raise", text |-> <<>>, patterns |-> {"quota"}],
      [kind |-> "raise", text |-> <<>>, patterns |-> {}] }

NoException == "none"
BlockingIOError == "BlockingIOError"

\* generate_tags letting an exception that is no quota error propagate
generate_tags_reraise(client, response) ==
    IF ~client THEN [raised |-> NoException, tags |-> <<>>]
    ELSE IF response.kind = "text"
    THEN [raised |-> NoException, tags |-> ParseTags(response.text)]
    ELSE IF response.patterns \cap QuotaPatterns # {}
    THEN [raised |-> BlockingIOError, tags |-> <<>>]
    ELSE [raised |-> "Exception", tags |-> <<>>]

\* generate_tags returning the split parts neither stripped nor filtered
generate_tags_unfiltered(client, response) ==
    IF ~client THEN [raised |-> NoException, tags |-> <<>>]
    ELSE IF response.kind = "text"
    THEN [raised |-> NoException, tags |-> Split(response.text)]
    ELSE IF response.patterns \cap QuotaPatterns # {}
    THEN [raised |-> BlockingIOError, tags |-> <<>>]
    ELSE [raised |-> NoException, tags |-> <<>>]

\* generate_tags(client, title, content) when the service answers `response`:
\* the returned list, or the exception raised
generate_tags(client, response) ==
    IF ~client THEN [raised |-> NoException, tags |-> <<>>]
    ELSE IF response.kind = "text"
    THEN [raised |-> NoException, tags |-> ParseTags(response.text)]
    ELSE IF response.patterns \cap QuotaPatterns # {}
    THEN [raised |-> BlockingIOError, tags |-> <<>>]
    ELSE [raised |-> NoException, tags |-> <<>>]

----------------------------------------------------------------------------
(* process_phase1: one iteration of the loop *)

\* existing_tags with the split parts neither stripped nor filtered
existing_tags_raw(node) == Split(node.tags)

\* existing_tags of a node
existing_tags(node) == ParseTags(node.tags)

\* final_title without the fallback to the page title
final_title_no_fallback(title, page_title) == title

\* final_title = title if title else page_title
final_title(title, page_title) == IF title # "" THEN title ELSE page_title

\* the branch with init_mode ignored by the manual-tag test
Phase1Branch_manual_always(init, existing, cached_tags, quota) ==
    IF existing # <<>> THEN "manual"
    ELSE IF ~init /\ cached_tags # None THEN "cache"
    ELSE IF quota THEN "skip"
    ELSE "generate"

\* the branch with the cache consulted before the manual tags
Phase1Branch_cache_first(init, existing, cached_tags, quota) ==
    IF ~init /\ cached_tags # None THEN "cache"
    ELSE IF ~init /\ existing # <<>> THEN "manual"
    ELSE IF quota THEN "skip"
    ELSE "generate"

\* the branch with an empty cached value taken for a miss
Phase1Branch_truthy_cache(init, existing, cached_tags, quota) ==
    IF ~init /\ existing # <<>> THEN "manual"
    ELSE IF ~init /\ Truthy(cached_tags) THEN "cache"
    ELSE IF quota THEN "skip"
    ELSE "generate"

\* the branch with the quota flag never consulted
Phase1Branch_no_quota_test(init, existing, cached_tags, quota) ==
    IF ~init /\ existing # <<>> THEN "manual"
    ELSE IF ~init /\ cached_tags # None THEN "cache"
    ELSE "generate"

\* the branch an http node takes: manual-tag sync, cache hit, skip after the
\* quota was reached, or generation
Phase1Branch(init, existing, cached_tags, quota) ==
    IF ~init /\ existing # <<>> THEN "manual"
    ELSE IF ~init /\ cached_tags # None THEN "cache"
    ELSE IF quota THEN "skip"
    ELSE "generate"

Event(ev, at, url, title, tags, text) ==
    [ev |-> ev, at |-> at, url |-> url, title |-> title, tags |-> tags, text |-> text]

InLoop == pc = "phase1" /\ i <= Len(all_bookmarks_list)
CurNode == data[all_bookmarks_list[i]]
CurBranch ==
    Phase1Branch(init_mode, existing_tags(CurNode), get_tags(db, CurNode.uri),
                 api_quota_reached)

----------------------------------------------------------------------------
(* Initial states *)

\* a store left by earlier uses of TagDB: per url no row, a row with an empty
\* tag-list ("empty"), or a row with tags ("cached"), each written by
\* upsert_tags at time 0
PriorRecord(rows, url, kind) ==
    IF kind = "absent" THEN rows
    ELSE upsert_tags(rows, url, "P", IF kind = "empty" THEN <<>> ELSE << <<"c">> >>, 0)

PriorKinds ==
    { <<"absent", "absent">>, <<"empty", "absent">>, <<"cached", "empty">> }

PriorStores ==
    { PriorRecord(PriorRecord({}, UrlA, kinds[1]), UrlB, kinds[2]) : kinds \in PriorKinds }

Init ==
    /\ pc = "start"
    /\ file_exists \in BOOLEAN
    /\ api_key \in BOOLEAN
    /\ init_mode \in BOOLEAN
    /\ file \in (IF file_exists THEN Trees(MaxNodes) ELSE {NoTree})
    /\ temp = FALSE
    /\ data = NoTree
    /\ all_bookmarks_list = <<>>
    /\ i = 1
    /\ api_quota_reached = FALSE
    /\ db \in PriorStores
    /\ clock = 1
    /\ log = <<>>
    /\ db_before = db
    /\ file_before = file

----------------------------------------------------------------------------
(* main *)

\* if not os.path.exists(input_path): return
MainNoFile ==
    /\ pc = "start"
    /\ ~file_exists
    /\ pc' = "exit"
    /\ UNCHANGED <<env, file, temp, data,
                   all_bookmarks_list, i, api_quota_reached, db, clock, log>>

\* main without the return for a missing client
MainNoClient_proceeds ==
    /\ pc = "start"
    /\ file_exists
    /\ ~api_key
    /\ temp' = TRUE
    /\ data' = file
    /\ all_bookmarks_list' = collect_bookmarks(file, 1, <<>>)
    /\ pc' = "phase1"
    /\ UNCHANGED <<env, file, i, api_quota_reached,
                   db, clock, log>>

\* copy to the working file, load, collect, open the store; no client: return
MainNoClient ==
    /\ pc = "start"
    /\ file_exists
    /\ ~api_key
    /\ temp' = TRUE
    /\ data' = file
    /\ all_bookmarks_list' = collect_bookmarks(file, 1, <<>>)
    /\ pc' = "exit"
    /\ UNCHANGED <<env, file, i, api_quota_reached,
                   db, clock, log>>

\* copy to the working file, load, collect, open the store, enter Phase 1
MainLoad ==
    /\ pc = "start"
    /\ file_exists
    /\ api_key
    /\ temp' = TRUE
    /\ data' = file
    /\ all_bookmarks_list' = collect_bookmarks(file, 1, <<>>)
    /\ i' = 1
    /\ api_quota_reached' = FALSE
    /\ pc' = "phase1"
    /\ UNCHANGED <<env, file, db, clock, log>>

\* if not url.startswith('http'): continue
Phase1SkipNonHttp ==
    /\ InLoop
    /\ ~StartsWith(CurNode.uri, Http)
    /\ i' = i + 1
    /\ UNCHANGED <<pc, env, file, temp, data,
                   all_bookmarks_list, api_quota_reached, db, clock, log>>

\* the manual-tag branch storing the trimmed tag-list back into the node
Phase1ManualSync_normalises ==
    /\ InLoop
    /\ StartsWith(CurNode.uri, Http)
    /\ CurBranch = "manual"
    /\ db' = upsert_tags(db, CurNode.uri, CurNode.title, existing_tags(CurNode), clock)
    /\ clock' = clock + 1
    /\ log' = Append(log, Event("upsert", i, CurNode.uri, CurNode.title,
                                existing_tags(CurNode), <<>>))
    /\ data' = [data EXCEPT ![all_bookmarks_list[i]].tags = Join(existing_tags(CurNode))]
    /\ i' = i + 1
    /\ UNCHANGED <<pc, env, file, temp,
                   all_bookmarks_list, api_quota_reached>>

\* 1. manual tags outside init mode: db.upsert_tags(url, title, existing_tags)
Phase1ManualSync ==
    /\ InLoop
    /\ StartsWith(CurNode.uri, Http)
    /\ CurBranch = "manual"
    /\ db' = upsert_tags(db, CurNode.uri, CurNode.title, existing_tags(CurNode), clock)
    /\ clock' = clock + 1
    /\ log' = Append(log, Event("upsert", i, CurNode.uri, CurNode.title,
                                existing_tags(CurNode), <<>>))
    /\ i' = i + 1
    /\ UNCHANGED <<pc, env, file, temp, data,
                   all_bookmarks_list, api_quota_reached>>

\* 2. cache hit outside init mode: continue
Phase1CacheHit ==
    /\ InLoop
    /\ StartsWith(CurNode.uri, Http)
    /\ CurBranch = "cache"
    /\ i' = i + 1
    /\ UNCHANGED <<pc, env, file, temp, data,
                   all_bookmarks_list, api_quota_reached, db, clock, log>>

\* 3. if api_quota_reached: continue
Phase1QuotaSkip ==
    /\ InLoop
    /\ StartsWith(CurNode.uri, Http)
    /\ CurBranch = "skip"
    /\ i' = i + 1
    /\ UNCHANGED <<pc, env, file, temp, data,
                   all_bookmarks_list, api_quota_reached, db, clock, log>>

\* the failed fetch with the sleep inside the generation branch only
Phase1FetchFailed_no_sleep ==
    /\ InLoop
    /\ StartsWith(CurNode.uri, Http)
    /\ CurBranch = "generate"
    /\ \E page \in FetchResults :
        /\ final_title(CurNode.title, page.title) = ""
        /\ page.content = ""
        /\ log' = Append(log, Event("fetch", i, CurNode.uri, page.title, <<>>, page.content))
    /\ i' = i + 1
    /\ UNCHANGED <<pc, env, file, temp, data,
                   all_bookmarks_list, api_quota_reached, db, clock>>

\* get_page_content gave neither title nor text: "Content fetch failed", sleep
Phase1FetchFailed ==
    /\ InLoop
    /\ StartsWith(CurNode.uri, Http)
    /\ CurBranch = "generate"
    /\ \E page \in FetchResults :
        /\ final_title(CurNode.title, page.title) = ""
        /\ page.content = ""
        /\ log' = log \o
             << Event("fetch", i, CurNode.uri, page.title, <<>>, page.content),
                Event("sleep", i, CurNode.uri, "", <<>>, "") >>
    /\ i' = i + 1
    /\ UNCHANGED <<pc, env, file, temp, data,
                   all_bookmarks_list, api_quota_reached, db, clock>>

\* the outcome of the generation call as the log names it: the exception
\* raised, "tags", or "empty" (an empty answer, or an error that
\* generate_tags swallowed: both return [])
GenOutcome(result) ==
    IF result.raised # NoException THEN result.raised
    ELSE IF result.tags # <<>> THEN "tags"
    ELSE "empty"

\* the generation step with an empty result recorded in the store as an
\* empty tag-list (the upsert that line 160 leaves commented out)
Phase1Generate_marks_visited ==
    /\ InLoop
    /\ StartsWith(CurNode.uri, Http)
    /\ CurBranch = "generate"
    /\ \E page \in FetchResults, response \in ApiResponses :
        LET title == final_title(CurNode.title, page.title)
            result == generate_tags(api_key, response)
            fetched == Event("fetch", i, CurNode.uri, page.title, <<>>, page.content)
            called == Event("gen", i, CurNode.uri, title, result.tags, GenOutcome(result))
            slept == Event("sleep", i, CurNode.uri, "", <<>>, "")
        IN  /\ title # "" \/ page.content # ""
            /\ IF result.raised = NoException
               THEN IF result.tags # <<>>
                    THEN /\ db' = upsert_tags(db, CurNode.uri, title, result.tags, clock)
                         /\ clock' = clock + 1
                         /\ log' = log \o
                              << fetched, called,
                                 Event("upsert", i, CurNode.uri, title, result.tags, <<>>),
                                 slept >>
                         /\ UNCHANGED <<pc, api_quota_reached>>
                         /\ i' = i + 1
                    ELSE /\ db' = upsert_tags(db, CurNode.uri, title, <<>>, clock)
                         /\ clock' = clock + 1
                         /\ log' = log \o
                              << fetched, called,
                                 Event("upsert", i, CurNode.uri, title, <<>>, <<>>),
                                 slept >>
                         /\ UNCHANGED <<pc, api_quota_reached>>
                         /\ i' = i + 1
               ELSE IF result.raised = BlockingIOError
                    THEN /\ api_quota_reached' = TRUE
                         /\ log' = log \o <<fetched, called, slept>>
                         /\ UNCHANGED <<pc, db, clock>>
                         /\ i' = i + 1
                    ELSE /\ pc' = "crashed"
                         /\ log' = log \o <<fetched, called>>
                         /\ UNCHANGED <<api_quota_reached, db, clock, i>>
    /\ UNCHANGED <<env, file, temp, data,
                   all_bookmarks_list>>

\* 4. fetch, generate_tags, upsert of a non-empty result; BlockingIOError
\* sets the flag, any other exception leaves process_phase1; sleep
Phase1Generate ==
    /\ InLoop
    /\ StartsWith(CurNode.uri, Http)
    /\ CurBranch = "generate"
    /\ \E page \in FetchResults, response \in ApiResponses :
        LET title == final_title(CurNode.title, page.title)
            result == generate_tags(api_key, response)
            fetched == Event("fetch", i, CurNode.uri, page.title, <<>>, page.content)
            called == Event("gen", i, CurNode.uri, title, result.tags, GenOutcome(result))
            slept == Event("sleep", i, CurNode.uri, "", <<>>, "")
        IN  /\ title # "" \/ page.content # ""
            /\ IF result.raised = NoException
               THEN IF result.tags # <<>>
                    THEN /\ db' = upsert_tags(db, CurNode.uri, title, result.tags, clock)
                         /\ clock' = clock + 1
                         /\ log' = log \o
                              << fetched, called,
                                 Event("upsert", i, CurNode.uri, title, result.tags, <<>>),
                                 slept >>
                         /\ UNCHANGED <<pc, api_quota_reached>>
                         /\ i' = i + 1
                    ELSE /\ log' = log \o <<fetched, called, slept>>
                         /\ UNCHANGED <<pc, api_quota_reached, db, clock>>
                         /\ i' = i + 1
               ELSE IF result.raised = BlockingIOError
                    THEN /\ api_quota_reached' = TRUE
                         /\ log' = log \o <<fetched, called, slept>>
                         /\ UNCHANGED <<pc, db, clock>>
                         /\ i' = i + 1
                    ELSE /\ pc' = "crashed"
                         /\ log' = log \o <<fetched, called>>
                         /\ UNCHANGED <<api_quota_reached, db, clock, i>>
    /\ UNCHANGED <<env, file, temp, data,
                   all_bookmarks_list>>

\* Phase 2 entered from any point of the Phase 1 loop
Phase2_early ==
    /\ pc = "phase1"
    /\ data' = process_phase2(data, 1, db)
    /\ pc' = "write"
    /\ UNCHANGED <<env, file, temp,
                   all_bookmarks_list, i, api_quota_reached, db, clock, log>>

\* Phase 2: process_phase2(data, db)
Phase2 ==
    /\ pc = "phase1"
    /\ i > Len(all_bookmarks_list)
    /\ data' = process_phase2(data, 1, db)
    /\ pc' = "write"
    /\ UNCHANGED <<env, file, temp,
                   all_bookmarks_list, i, api_quota_reached, db, clock, log>>

\* json.dump over the input file, db.close(), removal of the working copy
WriteOutput ==
    /\ pc = "write"
    /\ file' = data
    /\ temp' = FALSE
    /\ pc' = "done"
    /\ UNCHANGED <<env, data, all_bookmarks_list, i,
                   api_quota_reached, db, clock, log>>

Next ==
    \/ MainNoFile
    \/ MainNoClient
    \/ MainLoad
    \/ Phase1SkipNonHttp
    \/ Phase1ManualSync
    \/ Phase1CacheHit
    \/ Phase1QuotaSkip
    \/ Phase1FetchFailed
    \/ Phase1Generate
    \/ Phase2
    \/ WriteOutput

Spec == Init /\ [][Next]_vars

----------------------------------------------------------------------------
(* The store on its own: any sequence of upsert_tags and get_tags calls *)

\* tag-lists as the data model has them: non-empty trimmed tags without comma
TagLists == { <<>>, << <<"a">> >>, << <<"b">> >>, << <<"a">>, <<"b">> >> }

StoreTitles == {"T", "P"}

InitStore ==
    /\ pc = "store"
    /\ file_exists = FALSE
    /\ api_key = FALSE
    /\ init_mode = FALSE
    /\ file = NoTree
    /\ temp = FALSE
    /\ data = NoTree
    /\ all_bookmarks_list = <<>>
    /\ i = 1
    /\ api_quota_reached = FALSE
    /\ db = {}
    /\ clock = 1
    /\ log = <<>>
    /\ db_before = {}
    /\ file_before = NoTree

\* db.upsert_tags(url, title, tags_list) at time clock
StoreUpsert ==
    /\ pc = "store"
    /\ Len(log) < MaxOps
    /\ \E url \in Urls, title \in StoreTitles, tags_list \in TagLists :
        /\ db' = upsert_tags(db, url, title, tags_list, clock)
        /\ log' = Append(log, Event("upsert", clock, url, title, tags_list, <<>>))
    /\ clock' = clock + 1
    /\ UNCHANGED <<pc, env, file, temp, data, all_bookmarks_list, i, api_quota_reached>>

\* db.get_tags(url); the log keeps what it returned
StoreGet ==
    /\ pc = "store"
    /\ Len(log) < MaxOps
    /\ \E url \in Urls :
        log' = Append(log, Event("get", clock, url, "", <<>>, get_tags(db, url)))
    /\ UNCHANGED <<pc, env, file, temp, data, all_bookmarks_list, i,
                   api_quota_reached, db, clock>>

NextStore == StoreUpsert \/ StoreGet

SpecStore == InitStore /\ [][NextStore]_vars

----------------------------------------------------------------------------
(* Two runs in a row: main is started again on the file and the store that a
   finished run has left *)

\* the generation calls of the log that returned no tag
EmptyResults == SelectSeq(log, LAMBDA e : e.ev = "gen" /\ e.text = "empty")

\* main started a second time, as a non-refresh run, on the file and the
\* store as they are. The history keeps, of the first run, the generation
\* calls that returned no tag, followed by a "rerun" mark that tells the
\* mode of the first run; db_before and file_before stay what the first run
\* started from.
Rerun ==
    /\ pc = "done"
    /\ \A k \in 1..Len(log) : log[k].ev # "rerun"
    /\ pc' = "start"
    /\ init_mode' = FALSE
    /\ data' = NoTree
    /\ all_bookmarks_list' = <<>>
    /\ i' = 1
    /\ api_quota_reached' = FALSE
    /\ log' = Append(EmptyResults,
                     Event("rerun", 0, <<>>, "", <<>>,
                           IF init_mode THEN "refresh" ELSE "non-refresh"))
    /\ UNCHANGED <<file_exists, api_key, db_before, file_before, file, temp, db, clock>>

InitRerun == Init /\ file_exists /\ api_key

NextRerun ==
    \/ MainLoad
    \/ Phase1SkipNonHttp
    \/ Phase1ManualSync
    \/ Phase1CacheHit
    \/ Phase1QuotaSkip
    \/ Phase1FetchFailed
    \/ Phase1Generate
    \/ Phase2
    \/ WriteOutput
    \/ Rerun

SpecRerun == InitRerun /\ [][NextRerun]_vars

----------------------------------------------------------------------------
(* A pair of refresh runs: the same tree, the same answers of the fetcher and
   of the generator, another store *)

\* the fetch and generation calls of the log, with what they returned
Answers == SelectSeq(log, LAMBDA e : e.ev \in {"fetch", "gen"})

\* the tag field of every node of the written file, as events
WrittenTags == [n \in 1..Len(file) |-> Event("final", n, file[n].uri, "", <<>>, file[n].tags)]

\* the position of the "replay" mark in the log (0: the first run is going on)
ReplayAt ==
    LET S == {k \in 1..Len(log) : log[k].ev = "replay"}
    IN  IF S = {} THEN 0 ELSE CHOOSE k \in S : TRUE

\* main started again in refresh mode on the input file as the first run
\* found it and on a store with other records. The history keeps, of the
\* first run, the answers it got and the tag fields it wrote, followed by a
\* "replay" mark.
Replay ==
    /\ pc = "done"
    /\ init_mode
    /\ ReplayAt = 0
    /\ pc' = "start"
    /\ file' = file_before
    /\ db' \in PriorStores \ {db_before}
    /\ clock' = 1
    /\ data' = NoTree
    /\ all_bookmarks_list' = <<>>
    /\ i' = 1
    /\ api_quota_reached' = FALSE
    /\ log' = Answers \o WrittenTags \o << Event("replay", 0, <<>>, "", <<>>, "") >>
    /\ UNCHANGED <<env, temp>>

\* every call of the second run got the answer that the call of the same
\* kind for the same loop index got in the first run
SameAnswers ==
    ReplayAt # 0 =>
        \A k \in (ReplayAt + 1)..Len(log) :
            log[k].ev \in {"fetch", "gen"} =>
                \E m \in 1..(ReplayAt - 1) : log[m] = log[k]

\* the fetch fails, as it did in the first run
ReplayFetchFailed == Phase1FetchFailed /\ SameAnswers'

\* fetch and generation, with the answers of the first run
ReplayGenerate == Phase1Generate /\ SameAnswers'

InitPair == Init /\ file_exists /\ api_key /\ init_mode

NextPair ==
    \/ MainLoad
    \/ Phase1SkipNonHttp
    \/ Phase1QuotaSkip
    \/ ReplayFetchFailed
    \/ ReplayGenerate
    \/ Phase2
    \/ WriteOutput
    \/ Replay

SpecPair == InitPair /\ [][NextPair]_vars

----------------------------------------------------------------------------
(* Reading the history *)

\* the positions of the log that hold an event `ev` of loop index j
EventsAt(ev, j) == {k \in 1..Len(log) : log[k].ev = ev /\ log[k].at = j}

\* the positions of the log at which generate_tags raised the quota signal
QuotaSignals ==
    {k \in 1..Len(log) : log[k].ev = "gen" /\ log[k].text = BlockingIOError}

\* a run is in or past Phase 1 and has finished iteration j
Processed(j) ==
    /\ pc \in {"phase1", "write", "done"}
    /\ j \in 1..Len(all_bookmarks_list)
    /\ j < i

\* Phase 1 has ended and Phase 2 has not begun
Phase1Ended == pc = "phase1" /\ i > Len(all_bookmarks_list)

\* the node the loop handles in iteration j, as the input file had it
LeafAt(j) == file_before[all_bookmarks_list[j]]

\* the last position up to `upto` at which the log holds an upsert of url (0: none)
LastUpsert(url, upto) ==
    LET S == {k \in 1..upto : log[k].ev = "upsert" /\ log[k].url = url}
    IN  IF S = {} THEN 0 ELSE CHOOSE k \in S : \A m \in S : m <= k

----------------------------------------------------------------------------
(* Claims *)

\* C1: in non-refresh mode, every taggable leaf whose manual tag-list is
\* non-empty ends Phase 1 with the store row of its url holding exactly that
\* leaf's manual tags. (Stated as claimed; two leaves that share a url and
\* carry different manual tags refute it.)
C1_EveryManualLeafInStore ==
    (Phase1Ended /\ ~init_mode) =>
        \A j \in 1..Len(all_bookmarks_list) :
            (IsTaggable(LeafAt(j)) /\ existing_tags(LeafAt(j)) # <<>>) =>
                get_tags(db, LeafAt(j).uri) = Join(existing_tags(LeafAt(j)))

\* iteration j is the last one of a taggable leaf with manual tags for its url
LastManualFor(j) ==
    /\ IsTaggable(LeafAt(j))
    /\ existing_tags(LeafAt(j)) # <<>>
    /\ \A k \in (j + 1)..Len(all_bookmarks_list) :
          ~(/\ IsTaggable(LeafAt(k))
            /\ LeafAt(k).uri = LeafAt(j).uri
            /\ existing_tags(LeafAt(k)) # <<>>)

\* C1 (amended): in non-refresh mode, for every url, the last taggable leaf in
\* collect order that carries a non-empty manual tag-list for that url ends
\* Phase 1 with the store row of the url holding exactly its manual tags,
\* whatever the store held for the url before the run.
C1_LastManualLeafInStore ==
    (Phase1Ended /\ ~init_mode) =>
        \A j \in 1..Len(all_bookmarks_list) :
            LastManualFor(j) =>
                get_tags(db, LeafAt(j).uri) = Join(existing_tags(LeafAt(j)))

\* C1 witness: Phase 1 ended a non-refresh run in which a manual-tagged leaf
\* replaced a different value cached for its url before the run
C1_Witness ==
    /\ Phase1Ended
    /\ ~init_mode
    /\ \E j \in 1..Len(all_bookmarks_list) :
        /\ LastManualFor(j)
        /\ get_tags(db_before, LeafAt(j).uri) = <<"c">>
        /\ get_tags(db, LeafAt(j).uri) = <<"m", Comma, "n">>

\* the loop index of the iteration in which the quota signal was raised (0: none)
QuotaAt == IF QuotaSignals = {} THEN 0 ELSE log[CHOOSE k \in QuotaSignals : TRUE].at

\* C2: once a generation call has signalled quota exhaustion, the run's flag
\* is set and stays set, no later fetch or generation call occurs, the signal
\* is caught (the run does not leave Phase 1 by it) and raised at most once,
\* and later leaves still take the manual-tag branch (one upsert of their
\* manual tags, no fetch, no generation) and the cache-hit branch (no call at
\* all) exactly as without exhaustion. The calls are read off the history
\* when the loop has ended.
C2_QuotaStopsGenerationOnly ==
    /\ pc # "crashed"
    /\ (\E k \in 1..Len(log) : log[k].ev = "gen" /\ log[k].text = BlockingIOError)
          => api_quota_reached
    /\ Phase1Ended =>
        /\ Cardinality(QuotaSignals) <= 1
        /\ \A q \in QuotaSignals : \A k \in (q + 1)..Len(log) :
              log[k].ev \notin {"fetch", "gen"}
        /\ \A j \in 1..Len(all_bookmarks_list) :
              (QuotaAt # 0 /\ j > QuotaAt /\ IsTaggable(LeafAt(j))) =>
                  /\ EventsAt("fetch", j) = {} /\ EventsAt("gen", j) = {}
                  /\ (~init_mode /\ existing_tags(LeafAt(j)) # <<>>) =>
                        /\ Cardinality(EventsAt("upsert", j)) = 1
                        /\ \A k \in EventsAt("upsert", j) :
                              /\ log[k].url = LeafAt(j).uri
                              /\ log[k].title = LeafAt(j).title
                              /\ log[k].tags = existing_tags(LeafAt(j))
                        /\ get_tags(db, LeafAt(j).uri) # None
                  /\ ~(~init_mode /\ existing_tags(LeafAt(j)) # <<>>) =>
                        EventsAt("upsert", j) = {}

\* C2 witness: after the quota signal a later leaf was synced from its manual
\* tags, and the run reached its end
C2_Witness ==
    /\ pc = "done"
    /\ QuotaAt # 0
    /\ \E j \in 1..Len(all_bookmarks_list) :
          j > QuotaAt /\ EventsAt("upsert", j) # {}

\* C3: in non-refresh mode, an iteration over a taggable leaf with empty
\* manual tags whose url has a store row (its tag-list empty or not) makes no
\* fetch and no generation call and leaves the store as it is.
C3_CacheHitTouchesNothing ==
    [][(/\ InLoop
        /\ ~init_mode
        /\ IsTaggable(CurNode)
        /\ existing_tags(CurNode) = <<>>
        /\ RowsOf(db, CurNode.uri) # {})
       => (db' = db /\ log' = log /\ clock' = clock /\ i' = i + 1 /\ pc' = pc)]_vars

\* C3 witness: a non-refresh run has passed a taggable leaf with empty manual
\* tags whose url had, and still has, a row with an empty tag-list, without
\* fetching for it
C3_Witness ==
    /\ ~init_mode
    /\ \E j \in 1..Len(all_bookmarks_list) :
        /\ Processed(j)
        /\ IsTaggable(LeafAt(j))
        /\ existing_tags(LeafAt(j)) = <<>>
        /\ get_tags(db_before, LeafAt(j).uri) = <<>>
        /\ get_tags(db, LeafAt(j).uri) = <<>>
        /\ EventsAt("fetch", j) = {}

\* the fetch of iteration j gave a title or a snippet the loop can use
UsableFetch(j) ==
    \E k \in EventsAt("fetch", j) :
        final_title(LeafAt(j).title, log[k].title) # "" \/ log[k].text # ""

\* C4: in refresh mode, until the quota signal, every taggable leaf is
\* fetched once, and every such leaf whose effective title or fetched snippet
\* is non-empty gets exactly one generation attempt in the run, whatever its
\* manual tags and whatever the store holds for its url.
C4_RefreshGeneratesOncePerLeaf ==
    (init_mode /\ Phase1Ended) =>
        \A j \in 1..Len(all_bookmarks_list) :
            (IsTaggable(LeafAt(j)) /\ (QuotaAt = 0 \/ j <= QuotaAt)) =>
                /\ Cardinality(EventsAt("fetch", j)) = 1
                /\ UsableFetch(j) => Cardinality(EventsAt("gen", j)) = 1
                /\ ~UsableFetch(j) => EventsAt("gen", j) = {}

\* C4 witness: a refresh run generated for a leaf that has manual tags and
\* whose url had cached tags
C4_Witness ==
    /\ init_mode
    /\ \E j \in 1..Len(all_bookmarks_list) :
        /\ Processed(j)
        /\ existing_tags(LeafAt(j)) # <<>>
        /\ Truthy(get_tags(db_before, LeafAt(j).uri))
        /\ Cardinality(EventsAt("gen", j)) = 1

\* C5: Phase 2 leaves the tag field of a node as it was whenever the store
\* holds no row, or a row with an empty tag-list, for the node's url, and
\* leaves every node that is not a taggable leaf (folder, non-http bookmark)
\* entirely as it was.
C5_Phase2KeepsUnmatchedNodes ==
    pc = "write" =>
        \A n \in DOMAIN data :
            /\ (~Truthy(get_tags(db, file_before[n].uri))) =>
                  data[n].tags = file_before[n].tags
            /\ (~IsTaggable(file_before[n])) => data[n] = file_before[n]

\* C5 witness: Phase 2 has run over a taggable leaf with a non-empty tag field
\* whose url has a row with an empty tag-list, and over a node with a
\* non-empty tag field that is not a taggable leaf
C5_Witness ==
    /\ pc = "write"
    /\ \E n, m \in DOMAIN data :
        /\ IsTaggable(data[n])
        /\ data[n].tags # <<>>
        /\ get_tags(db, data[n].uri) = <<>>
        /\ ~IsTaggable(data[m])
        /\ data[m].tags # <<>>

\* C6: after Phase 2, every taggable leaf of the tree, at any depth, whose url
\* has a store row with a non-empty tag-list has that row's comma-joined
\* tag-list as its tag field, so that leaves sharing such a url end with the
\* same tag field; the written file holds the same.
C6_Phase2WritesStoreTags ==
    /\ pc \in {"write", "done"} =>
          \A n \in DOMAIN data :
              (IsTaggable(data[n]) /\ Truthy(get_tags(db, data[n].uri))) =>
                  data[n].tags = get_tags(db, data[n].uri)
    /\ pc = "done" => file = data

\* node n is a child of a node other than the root
IsNested(tree, n) ==
    \E p \in DOMAIN tree :
        p # 1 /\ \E c \in 1..Len(tree[p].children) : tree[p].children[c] = n

\* C6 witness: Phase 2 has rewritten two taggable leaves that share a url,
\* one of them nested below a node that is not the root, and their tag
\* fields differed before
C6_Witness ==
    /\ pc = "write"
    /\ \E n, m \in DOMAIN data :
        /\ n # m
        /\ IsNested(data, n)
        /\ IsTaggable(data[n]) /\ IsTaggable(data[m])
        /\ data[n].uri = data[m].uri
        /\ file_before[n].tags # file_before[m].tags
        /\ Truthy(get_tags(db, data[n].uri))
        /\ data[n].tags # file_before[n].tags

\* what get_tags must return for url after the first `upto` events of the log
ExpectedTags(url, upto) ==
    IF LastUpsert(url, upto) = 0 THEN None
    ELSE Join(log[LastUpsert(url, upto)].tags)

\* C7: after any sequence of store operations, get_tags(u) returns exactly
\* the (comma-joined) tag-list of the most recent upsert of u, which parses
\* back to that list with nothing of an earlier list merged in; upserts of
\* other urls do not affect it; it returns None when u was never upserted;
\* and the table holds at most one row per url. Every get_tags call made on
\* the way returned the same.
C7_GetReturnsLastUpsert ==
    /\ \A url \in Urls :
        /\ Cardinality(RowsOf(db, url)) <= 1
        /\ get_tags(db, url) = ExpectedTags(url, Len(log))
        /\ LastUpsert(url, Len(log)) # 0 =>
              ParseTags(get_tags(db, url)) = log[LastUpsert(url, Len(log))].tags
    /\ \A g \in 1..Len(log) :
          log[g].ev = "get" => log[g].text = ExpectedTags(log[g].url, g - 1)

\* C7 witness: a url was upserted twice with different tag-lists, the other
\* url was upserted in between, and a get of the first url came last
C7_Witness ==
    /\ pc = "store"
    /\ Len(log) = 4
    /\ log[1].ev = "upsert" /\ log[1].url = UrlA /\ log[1].tags = << <<"a">>, <<"b">> >>
    /\ log[2].ev = "upsert" /\ log[2].url = UrlB
    /\ log[3].ev = "upsert" /\ log[3].url = UrlA /\ log[3].tags = << <<"b">> >>
    /\ log[4].ev = "get" /\ log[4].url = UrlA /\ log[4].text = <<"b">>

\* C8: after upsert(url, title, tag-list) the row of url has the given title,
\* the given tag-list and the time of the call, also when a row of url
\* existed before with another title. (Stated as claimed; the title of an
\* existing row is kept by ON CONFLICT ... DO UPDATE SET tags, updated_at.)
C8_UpsertReplacesRecord ==
    \A url \in Urls :
        LastUpsert(url, Len(log)) # 0 =>
            LET last == log[LastUpsert(url, Len(log))]
            IN  \E r \in RowsOf(db, url) :
                    /\ r.title = last.title
                    /\ r.tags = Join(last.tags)
                    /\ r.updated_at = last.at

\* iteration j went into the generation branch and failed there: no usable
\* fetch, or a generation call that returned nothing (an empty answer or a
\* swallowed error) or raised the quota signal
FailedAt(j) ==
    /\ \E k \in 1..Len(log) : log[k].ev = "fetch" /\ log[k].at = j
    /\ ~\E k \in 1..Len(log) :
          log[k].ev = "gen" /\ log[k].at = j /\ log[k].text = "tags"

SomeFailed == \E j \in 1..Len(all_bookmarks_list) : FailedAt(j)

\* C9: a failure in the generation branch of a leaf (content fetch failed,
\* empty generation result, quota signal, other generation error) writes
\* nothing to the store for that leaf and does not end the run: no exception
\* leaves Phase 1, the loop has gone on past the leaf, the run can take a step
\* in every state before the output is written, Phase 2 leaves the leaf's tag
\* field as it was when the store has no row for its url, and the written
\* file holds that tree.
C9_GenerationFailureIsLocal ==
    /\ pc # "crashed"
    /\ SomeFailed =>
        /\ pc \in {"phase1", "write", "done"}
        /\ pc # "done" => ENABLED Next
        /\ pc = "done" => (file = data /\ ~temp)
    /\ \A j \in 1..Len(all_bookmarks_list) :
        FailedAt(j) =>
            /\ i > j
            /\ \A k \in 1..Len(log) : ~(log[k].ev = "upsert" /\ log[k].at = j)
            /\ (pc \in {"write", "done"} /\ get_tags(db, LeafAt(j).uri) = None) =>
                  data[all_bookmarks_list[j]].tags = LeafAt(j).tags

\* C9 witness: a run is done in which one leaf failed by an empty generation
\* result and a later one by the quota signal, the store has no row for the
\* first, and its tag field is not empty
C9_Witness ==
    /\ pc = "done"
    /\ \E j, k \in 1..Len(all_bookmarks_list) :
        /\ j < k
        /\ FailedAt(j) /\ FailedAt(k)
        /\ \E e \in EventsAt("gen", j) : log[e].text = "empty"
        /\ \E e \in EventsAt("gen", k) : log[e].text = BlockingIOError
        /\ get_tags(db, LeafAt(j).uri) = None
        /\ file[all_bookmarks_list[j]].tags # <<>>

\* the tag-list the generator stub of the end-to-end scenarios returns
StubTags == << <<"f">>, <<"b">> >>

\* the tree has one taggable leaf, node n, with empty title and empty tags;
\* the store was empty; the run is a non-refresh run; every generation call
\* returned StubTags
OneUntaggedLeafScenario(n) ==
    /\ ~init_mode
    /\ db_before = {}
    /\ file_before # NoTree
    /\ n \in DOMAIN file_before
    /\ \A m \in DOMAIN file_before : IsTaggable(file_before[m]) <=> m = n
    /\ file_before[n].title = ""
    /\ file_before[n].tags = <<>>
    /\ \A k \in 1..Len(log) :
          log[k].ev = "gen" => (log[k].text = "tags" /\ log[k].tags = StubTags)

\* C10: in that scenario the run ends with the leaf's tag field equal to the
\* stub's tags joined by commas and a store row of the leaf's url holding
\* them. (Stated as claimed; a fetch that yields neither title nor snippet
\* refutes it, since the generator is then never called.)
C10_SingleLeafGetsGeneratedTags ==
    \A n \in DOMAIN file_before :
        (pc = "done" /\ OneUntaggedLeafScenario(n)) =>
            /\ file[n].tags = Join(StubTags)
            /\ get_tags(db, file[n].uri) = Join(StubTags)

\* every fetch of the run returned a title or a snippet
FetcherSucceeds ==
    \A k \in 1..Len(log) :
        log[k].ev = "fetch" => (log[k].title # "" \/ log[k].text # "")

\* C10 (amended): in that scenario, when moreover the content fetcher returns
\* a non-empty title or snippet for the leaf's url, the run ends with the
\* leaf's tag field equal to the stub's tags joined by commas and a store row
\* of the leaf's url holding them.
C10_SingleLeafGetsGeneratedTagsIfFetched ==
    \A n \in DOMAIN file_before :
        (pc = "done" /\ OneUntaggedLeafScenario(n) /\ FetcherSucceeds) =>
            /\ file[n].tags = Join(StubTags)
            /\ get_tags(db, file[n].uri) = Join(StubTags)

\* C10 witness: such a run is done, the fetch gave only a page title, the
\* generator was called once and the leaf shows "f,b"
C10_Witness ==
    /\ pc = "done"
    /\ FetcherSucceeds
    /\ \E n \in DOMAIN file_before :
        /\ OneUntaggedLeafScenario(n)
        /\ \E k \in 1..Len(log) : log[k].ev = "fetch" /\ log[k].title = "P"
        /\ Cardinality({k \in 1..Len(log) : log[k].ev = "gen"}) = 1
        /\ file[n].tags = <<"f", Comma, "b">>
        /\ RowsOf(db, file[n].uri) # {}

\* the tree has one taggable leaf, node n, whose tag field parses to a
\* non-empty tag-list; the store was empty; the run is a non-refresh run
OneManualLeafScenario(n) ==
    /\ ~init_mode
    /\ db_before = {}
    /\ file_before # NoTree
    /\ n \in DOMAIN file_before
    /\ \A m \in DOMAIN file_before : IsTaggable(file_before[m]) <=> m = n
    /\ ParseTags(file_before[n].tags) # <<>>

\* C11: in a non-refresh run over a tree whose single taggable leaf has a
\* non-empty manual tag-list M, started on an empty store, no fetch and no
\* generation call is ever made, and the run ends with the store row of the
\* leaf's url and the leaf's tag field in the written file both holding M
\* (its trimmed tags joined by commas).
C11_ManualLeafEndToEnd ==
    \A n \in DOMAIN file_before :
        OneManualLeafScenario(n) =>
            /\ \A k \in 1..Len(log) : log[k].ev \notin {"fetch", "gen"}
            /\ pc = "done" =>
                /\ get_tags(db, file_before[n].uri) = Join(ParseTags(file_before[n].tags))
                /\ file[n].tags = Join(ParseTags(file_before[n].tags))
                /\ ParseTags(file[n].tags) = ParseTags(file_before[n].tags)

\* C11 witness: such a run is done over a leaf tagged " m,n" that hangs below
\* a bookmark, and the file and the store show "m,n"
C11_Witness ==
    /\ pc = "done"
    /\ \E n \in DOMAIN file_before :
        /\ OneManualLeafScenario(n)
        /\ IsNested(file_before, n)
        /\ file_before[n].tags = <<Space, "m", Comma, "n">>
        /\ file[n].tags = <<"m", Comma, "n">>
        /\ get_tags(db, file[n].uri) = <<"m", Comma, "n">>
        /\ log # <<>>

\* the events a step appends to the log
NewEvents == SubSeq(log', Len(log) + 1, Len(log'))

\* a step appends an event `ev`
Logs(ev) == \E k \in 1..Len(NewEvents) : NewEvents[k].ev = ev

\* C12: an iteration of Phase 1 pauses exactly when it made a generation
\* call. (Stated as claimed; the iteration whose fetch gave neither title
\* nor snippet makes no generation call and pauses all the same.)
C12_PauseExactlyAfterGeneration ==
    [][InLoop => (Logs("sleep") <=> Logs("gen"))]_vars

\* the current node leaves the iteration before the fetch: no http uri,
\* manual tags or a store row outside refresh mode, or the quota flag set
LeavesBeforeFetch ==
    \/ ~StartsWith(CurNode.uri, Http)
    \/ ~init_mode /\ ParseTags(CurNode.tags) # <<>>
    \/ ~init_mode /\ RowsOf(db, CurNode.uri) # {}
    \/ api_quota_reached

\* C12 (amended): an iteration of Phase 1 pauses exactly when it fetched
\* content for its leaf, whether a generation call followed (success, empty
\* result, failure, quota signal) or not (the fetch gave neither title nor
\* snippet); the pause is the last thing the iteration does, happens once,
\* and the loop then moves to the next leaf; no pause occurs for a leaf
\* handled by the manual-tag branch, the cache-hit branch or the quota skip.
C12_PauseExactlyAfterFetch ==
    [][InLoop =>
        /\ Logs("sleep") <=> Logs("fetch")
        /\ Logs("gen") => Logs("sleep")
        /\ LeavesBeforeFetch <=> ~Logs("sleep")
        /\ Logs("sleep") =>
            /\ NewEvents[Len(NewEvents)].ev = "sleep"
            /\ Cardinality({k \in 1..Len(NewEvents) : NewEvents[k].ev = "sleep"}) = 1
            /\ i' = i + 1]_vars

\* C12 witness: Phase 1 has ended after pausing for a leaf whose fetch failed,
\* so that no generation call was made for it, and after syncing a leaf from
\* its manual tags without a pause
C12_Witness ==
    /\ Phase1Ended
    /\ \E j, m \in 1..Len(all_bookmarks_list) :
        /\ EventsAt("fetch", j) # {} /\ EventsAt("gen", j) = {}
        /\ EventsAt("sleep", j) # {}
        /\ EventsAt("upsert", m) # {} /\ EventsAt("fetch", m) = {}
        /\ EventsAt("sleep", m) = {}

\* C13: in every run, Phase 2 mutates the tree only when the Phase 1 loop has
\* gone past every collected leaf (with the quota flag it ended with), and
\* does so in one step; nothing is written to the store once Phase 2 has
\* begun; the input file keeps its content until the single write, which
\* happens after Phase 2, stores the tree Phase 2 produced, and is the last
\* step of the run.
C13_PhasesInOrderOneWrite ==
    /\ [](/\ pc \in {"write", "done"} => i > Len(all_bookmarks_list)
          /\ pc = "phase1" => data = file_before
          /\ pc # "done" => file = file_before
          /\ pc = "done" => file = data)
    /\ [][/\ (data' # data /\ pc # "start") => (Phase1Ended /\ pc' = "write")
          /\ pc \in {"write", "done"} => (db' = db /\ log' = log /\ data' = data)
          /\ (file' # file \/ pc' = "done") => (pc = "write" /\ file' = data)
          /\ pc # "done"]_vars

\* C13 witness: a run is done that wrote to the store in Phase 1, changed a
\* node in Phase 2, and wrote a file that differs from the input
C13_Witness ==
    /\ pc = "done"
    /\ \E k \in 1..Len(log) : log[k].ev = "upsert"
    /\ db # db_before
    /\ file # file_before
    /\ \E k \in 1..Len(log) : log[k].ev = "gen" /\ log[k].text = BlockingIOError

\* the run lacks its input file or its credential
FatalStartup == ~file_exists \/ ~api_key

\* C14: when the input file or the credential is missing, the run ends at
\* its first step and does nothing after it: the Phase 1 loop never advances
\* and the quota flag is never set, no fetch, generation call or upsert is
\* made, the store keeps its rows, the loaded tree (if any) is the input
\* tree, the input file keeps its content, and with the file missing nothing
\* at all is created.
C14_FatalStartupTouchesNothing ==
    /\ [](FatalStartup =>
            /\ pc \in {"start", "exit"}
            /\ i = 1 /\ ~api_quota_reached
            /\ log = <<>>
            /\ db = db_before /\ clock = 1
            /\ data \in {NoTree, file_before}
            /\ file = file_before
            /\ ~file_exists => (data = NoTree /\ ~temp /\ all_bookmarks_list = <<>>))
    /\ [][pc # "exit" /\ (FatalStartup => (pc = "start" /\ pc' = "exit"))]_vars

\* C14 witness: a run without credential has ended; its input holds a taggable
\* leaf with manual tags and one without, and the store has no row for them
C14_Witness ==
    /\ pc = "exit"
    /\ file_exists /\ ~api_key
    /\ db = {}
    /\ \E j, k \in 1..Len(all_bookmarks_list) :
        /\ IsTaggable(file[all_bookmarks_list[j]])
        /\ ParseTags(file[all_bookmarks_list[j]].tags) # <<>>
        /\ IsTaggable(file[all_bookmarks_list[k]])
        /\ ParseTags(file[all_bookmarks_list[k]].tags) = <<>>

\* the position of node n among the children of node p (0: not a child)
ChildIndex(tree, p, n) ==
    LET S == {c \in 1..Len(tree[p].children) : tree[p].children[c] = n}
    IN  IF S = {} THEN 0 ELSE CHOOSE c \in S : TRUE

\* the node that has n among its children
ParentOf(tree, n) == CHOOSE p \in DOMAIN tree : ChildIndex(tree, p, n) # 0

\* the child positions to follow from the root to reach node n
RECURSIVE PathTo(_, _)
PathTo(tree, n) ==
    IF n = 1 THEN <<>>
    ELSE Append(PathTo(tree, ParentOf(tree, n)), ChildIndex(tree, ParentOf(tree, n), n))

\* path p comes before path q in depth-first pre-order with children in array
\* order: p is a proper prefix of q, or p turns to an earlier child where
\* they part
RECURSIVE PreOrderBefore(_, _)
PreOrderBefore(p, q) ==
    IF q = <<>> THEN FALSE
    ELSE IF p = <<>> THEN TRUE
    ELSE IF Head(p) # Head(q) THEN Head(p) < Head(q)
    ELSE PreOrderBefore(Tail(p), Tail(q))

\* the bucket holds each node satisfying `Wanted` once and nothing else
HoldsExactly(bucket, tree, Wanted(_)) ==
    /\ \A n \in DOMAIN tree : Wanted(tree[n]) <=> \E a \in 1..Len(bucket) : bucket[a] = n
    /\ \A a, b \in 1..Len(bucket) : bucket[a] = bucket[b] => a = b

\* the file was loaded and collected
Collected == file_exists /\ pc # "start"

\* C15: the bucket collect_bookmarks fills holds exactly the taggable leaves
\* of the tree. (Stated as claimed; a bookmark whose uri does not begin with
\* http is collected too, and only the Phase 1 loop skips it.)
C15_CollectYieldsTaggableLeaves ==
    Collected => HoldsExactly(all_bookmarks_list, file_before, IsTaggable)

IsPlace(node) == node.type = PlaceType

\* C15 (amended): for every tree, the bucket collect_bookmarks fills holds
\* exactly the nodes of bookmark-place kind, each once, in depth-first
\* pre-order with children in array order (a node before the nodes below it);
\* the loaded tree is left as the file had it; collecting again, also from
\* the tree Phase 2 has rewritten, gives the same sequence; and the nodes of
\* the bucket that the Phase 1 loop does not skip for their uri are exactly
\* the taggable leaves.
C15_CollectYieldsPlacesInPreOrder ==
    Collected =>
        /\ HoldsExactly(all_bookmarks_list, file_before, IsPlace)
        /\ \A a, b \in 1..Len(all_bookmarks_list) :
              a < b => PreOrderBefore(PathTo(file_before, all_bookmarks_list[a]),
                                      PathTo(file_before, all_bookmarks_list[b]))
        /\ pc \in {"phase1", "exit"} => data = file_before
        /\ pc \in {"exit", "write"} => collect_bookmarks(data, 1, <<>>) = all_bookmarks_list
        /\ \A n \in DOMAIN file_before :
              IsTaggable(file_before[n]) <=>
                  \E a \in 1..Len(all_bookmarks_list) :
                      /\ all_bookmarks_list[a] = n
                      /\ StartsWith(file_before[n].uri, Http)

\* C15 witness: the bucket holds a bookmark without http uri and then a
\* taggable leaf that hangs below it
C15_Witness ==
    /\ Collected
    /\ Len(all_bookmarks_list) = 2
    /\ ParentOf(file_before, all_bookmarks_list[2]) = all_bookmarks_list[1]
    /\ ~IsTaggable(file_before[all_bookmarks_list[1]])
    /\ IsTaggable(file_before[all_bookmarks_list[2]])

\* a tag as the store is meant to hold it: not empty, no blank at either
\* end, no comma
IsCleanTag(t) ==
    /\ t # <<>>
    /\ Head(t) # Space /\ t[Len(t)] # Space
    /\ \A c \in 1..Len(t) : t[c] # Comma

\* no row of the store has an empty tag-list
NoEmptyRecord(rows) == \A r \in rows : r.tags # <<>>

\* C16: in either run mode, every upsert Phase 1 issues carries a non-empty
\* tag-list whose elements are non-empty trimmed strings; so when no row with
\* an empty tag-list exists before the run, none exists in any state of the
\* run. (The upserts are read off the history of the finished loop.)
C16_Phase1UpsertsNonEmptyLists ==
    /\ Phase1Ended =>
        \A k \in 1..Len(log) :
            log[k].ev = "upsert" =>
                /\ log[k].tags # <<>>
                /\ \A e \in 1..Len(log[k].tags) : IsCleanTag(log[k].tags[e])
    /\ NoEmptyRecord(db_before) => NoEmptyRecord(db)

\* C16 witness: a refresh run on a store without empty records is done in
\* which one generation call returned no tag, and wrote nothing, and another
\* returned tags that were upserted in place of a leaf's manual tags
C16_Witness ==
    /\ pc = "done"
    /\ init_mode
    /\ NoEmptyRecord(db_before)
    /\ \E j, k \in 1..Len(all_bookmarks_list) :
        /\ \E e \in EventsAt("gen", j) : log[e].text = "empty"
        /\ EventsAt("upsert", j) = {}
        /\ ParseTags(LeafAt(k).tags) # <<>>
        /\ \E e \in EventsAt("upsert", k) : log[e].tags = << <<"f">>, <<"b">> >>

\* the position of the "rerun" mark in the log (0: the first run is going on)
RerunAt ==
    LET S == {k \in 1..Len(log) : log[k].ev = "rerun"}
    IN  IF S = {} THEN 0 ELSE CHOOSE k \in S : TRUE

InSecondRun == RerunAt # 0

\* the positions of the log at which the second run logged `ev` for index j
Events2(ev, j) ==
    {k \in (RerunAt + 1)..Len(log) : log[k].ev = ev /\ log[k].at = j}

\* the first run called the generator for index j and got no tag
EmptyBefore(j) ==
    \E k \in 1..(RerunAt - 1) : log[k].ev = "gen" /\ log[k].at = j

\* the loop index at which the second run got the quota signal (0: none)
QuotaAt2 ==
    LET S == {k \in (RerunAt + 1)..Len(log) :
                 log[k].ev = "gen" /\ log[k].text = BlockingIOError}
    IN  IF S = {} THEN 0 ELSE log[CHOOSE k \in S : TRUE].at

\* the second run took the leaf of index j into the generation branch, as
\* far as the quota allowed: it fetched for it, and called the generator when
\* the fetch gave a title or a snippet
SentToGeneratorAgain(j) ==
    (QuotaAt2 = 0 \/ j <= QuotaAt2) =>
        /\ Events2("fetch", j) # {}
        /\ \A k \in Events2("fetch", j) :
              (final_title(LeafAt(j).title, log[k].title) # "" \/ log[k].text # "")
                  => Events2("gen", j) # {}

\* C17: a leaf for which a run's generation call returned no tag has no
\* store record for its url after the run, and the next non-refresh run
\* takes it into the generation branch again. (Stated as claimed; a record
\* of the url that existed before a refresh run, or that another leaf of the
\* same url caused, refutes it.)
C17_EmptyResultIsRetried ==
    /\ (~InSecondRun /\ pc = "done") =>
        \A j \in 1..Len(all_bookmarks_list) :
            (\E e \in EventsAt("gen", j) : log[e].text = "empty") =>
                RowsOf(db, LeafAt(j).uri) = {}
    /\ (InSecondRun /\ Phase1Ended) =>
        \A j \in 1..Len(all_bookmarks_list) :
            EmptyBefore(j) => SentToGeneratorAgain(j)

\* no other collected bookmark has the uri of the leaf of index j
UniqueUrl(j) ==
    \A k \in 1..Len(all_bookmarks_list) :
        LeafAt(k).uri = LeafAt(j).uri => k = j

\* the leaf of index j had no manual tags and its url no store record when
\* the first run started, and no other bookmark has its url
FreshLeaf(j) ==
    /\ ParseTags(LeafAt(j).tags) = <<>>
    /\ RowsOf(db_before, LeafAt(j).uri) = {}
    /\ UniqueUrl(j)

\* C17 (amended): the iteration whose generation call returns no tag writes
\* nothing to the store. When the leaf has no manual tags and its url had no
\* record before the run and is the url of no other bookmark, the url has
\* no record after the run either, the leaf's tag field is still empty, and
\* the next non-refresh run over the resulting tree and store finds a cache
\* miss for the leaf and takes it into the generation branch again.
C17_EmptyResultIsRetriedIfUrlUnique ==
    /\ (~InSecondRun /\ pc \in {"phase1", "write", "done"}) =>
        \A j \in 1..Len(all_bookmarks_list) :
            (\E e \in EventsAt("gen", j) : log[e].text = "empty") =>
                /\ EventsAt("upsert", j) = {}
                /\ FreshLeaf(j) => RowsOf(db, LeafAt(j).uri) = {}
                /\ (FreshLeaf(j) /\ pc = "done") =>
                      ParseTags(file[all_bookmarks_list[j]].tags) = <<>>
    /\ (InSecondRun /\ Phase1Ended) =>
        \A j \in 1..Len(all_bookmarks_list) :
            (EmptyBefore(j) /\ FreshLeaf(j)) => SentToGeneratorAgain(j)

\* C17 witness: the second run has ended its loop after calling the
\* generator again, and again for nothing, for a leaf whose call returned no
\* tag in the first run, while the other leaf was a cache hit
C17_Witness ==
    /\ InSecondRun
    /\ Phase1Ended
    /\ \E j, k \in 1..Len(all_bookmarks_list) :
        /\ EmptyBefore(j)
        /\ FreshLeaf(j)
        /\ \E e \in Events2("gen", j) : log[e].text = "empty"
        /\ RowsOf(db, LeafAt(j).uri) = {}
        /\ k # j
        /\ IsTaggable(LeafAt(k))
        /\ Events2("fetch", k) = {} /\ Events2("upsert", k) = {}

\* C18: a step of the Phase 1 loop changes no node of the tree (tags, title,
\* uri, type, children), nor the collected sequence, the input file or the
\* working copy: it changes at most the store, the quota flag and the loop
\* position. The Phase 2 step leaves the store as it is, issues no call, and
\* changes nothing of a node but its tag field.
C18_PhasesKeepToTheirState ==
    [][/\ InLoop =>
            /\ data' = data
            /\ all_bookmarks_list' = all_bookmarks_list
            /\ file' = file /\ temp' = temp
            /\ pc' = pc
       /\ (pc = "phase1" /\ pc' = "write") =>
            /\ db' = db /\ clock' = clock /\ log' = log
            /\ api_quota_reached' = api_quota_reached
            /\ file' = file
            /\ DOMAIN data' = DOMAIN data
            /\ \A n \in DOMAIN data : data'[n] = [data[n] EXCEPT !.tags = data'[n].tags]]_vars

\* C18 witness: Phase 2 has just changed a leaf's tag field, after a Phase 1
\* that upserted the manual tags " m,n" of a leaf, and the flag is set
C18_Witness ==
    /\ pc = "write"
    /\ api_quota_reached
    /\ db # db_before
    /\ \E k \in 1..Len(log) :
          log[k].ev = "upsert" /\ log[k].tags = << <<"m">>, <<"n">> >>
    /\ \E n \in DOMAIN data : data[n].tags # file_before[n].tags

\* the second run is going on and the first one was a non-refresh run
SecondOfTwoNormalRuns == InSecondRun /\ log[RerunAt].text = "non-refresh"

\* node n of the tree is a taggable leaf whose tag field holds a tag
TaggedLeaf(tree, n) == IsTaggable(tree[n]) /\ ParseTags(tree[n].tags) # <<>>

\* C20: in a non-refresh run started on the tree and the store that a
\* completed non-refresh run has left, every taggable leaf with a non-empty
\* tag-list has, from the start to the end, the tag field that the store
\* holds for its url; no fetch and no generation call is made for such a
\* leaf; no step changes the tags of a row that exists; and the written file
\* has the tag field of every such leaf as it was.
C20_SecondRunIsStable ==
    /\ [](SecondOfTwoNormalRuns =>
            /\ \A n \in DOMAIN file :
                  TaggedLeaf(file, n) => file[n].tags = get_tags(db, file[n].uri)
            /\ Phase1Ended =>
                  \A j \in 1..Len(all_bookmarks_list) :
                      TaggedLeaf(file, all_bookmarks_list[j]) =>
                          (Events2("fetch", j) = {} /\ Events2("gen", j) = {}))
    /\ [][SecondOfTwoNormalRuns =>
            /\ \A r \in db : get_tags(db', r.url) = r.tags
            /\ \A n \in DOMAIN file :
                  TaggedLeaf(file, n) => file'[n].tags = file[n].tags]_vars

\* C20 witness: the second of two non-refresh runs is done; it has upserted
\* again the tags of a leaf that the first run had trimmed to "m,n", and has
\* generated tags for another leaf that the first run had left empty
C20_Witness ==
    /\ SecondOfTwoNormalRuns
    /\ pc = "done"
    /\ \E j, k \in 1..Len(all_bookmarks_list) :
        /\ LeafAt(j).tags = <<Space, "m", Comma, "n">>
        /\ file[all_bookmarks_list[j]].tags = <<"m", Comma, "n">>
        /\ Events2("upsert", j) # {}
        /\ Events2("fetch", j) = {}
        /\ LeafAt(k).tags = <<Comma>>
        /\ Events2("upsert", k) # {}
        /\ file[all_bookmarks_list[k]].tags = <<"f", Comma, "b">>

\* the tag field that the first run of the pair wrote for node n
WrittenByFirst(n) ==
    log[CHOOSE k \in 1..ReplayAt : log[k].ev = "final" /\ log[k].at = n].text

\* C19: two refresh runs over the same tree that get the same answers from
\* the fetcher and the generator, and differ only in the records the store
\* held before, write the same tag field for every taggable leaf. (Stated as
\* claimed; a leaf whose generation yields nothing in the run gets the
\* record that the store held before the run for its url, if there is one.)
C19_RefreshIgnoresPriorStore ==
    (ReplayAt # 0 /\ pc = "done") =>
        \A n \in DOMAIN file :
            IsTaggable(file[n]) => file[n].tags = WrittenByFirst(n)

====
